---- MODULE Spec2Model ----
(***************************************************************************)
(* The writeback queue of upspin's store cache (package storecache):       *)
(* the scheduler goroutine, the writer goroutines, the retry timers, the   *)
(* clients calling requestWriteback and flush, and the parallelism         *)
(* controller the scheduler uses to bound the number of writebacks in      *)
(* flight.                                                                 *)
(***************************************************************************)
EXTENDS Integers, Sequences, FiniteSets, TLC

(* ------------------------------------------------------------------ *)
(* Program constants.                                                  *)
(* ------------------------------------------------------------------ *)

\* Number of writer goroutines, and the capacity of every channel.
writers == 20

\* Initial maximum number of parallel writebacks.
initialMaxParallel == 6

\* The values of endpointQueue.state (iota: 0, 1, 2).
unknown == 0
live == 1
dead == 2

(* ------------------------------------------------------------------ *)
(* Bounds of the model.                                                *)
(* ------------------------------------------------------------------ *)

\* Total number of request objects created by requestWriteback.
MaxReq == 2

\* Total number of calls of flush.
MaxFlush == 2

\* Total number of writebacks that end with an error.
MaxFail == 1

\* Total number of failed reads of a writeback link.
MaxReadErr == 1

\* In the controller's own specification, the cap on successes, which the
\* code counts without bound once max has reached writers.
MaxSuccesses == 22

\* With a slow endpoint: the number of request objects and the number of
\* writebacks that end with an error.
MaxSlowReq == 3
MaxSlowFail == 3

\* The locations clients write back: two on endpoint e1, one on e2.
Endpoints == {"e1", "e2"}
Locations ==
    { [Reference |-> "r1", Endpoint |-> "e1"],
      [Reference |-> "r2", Endpoint |-> "e1"],
      [Reference |-> "r1", Endpoint |-> "e2"] }

\* The locations clients flush.
FlushLocations == { [Reference |-> "r1", Endpoint |-> "e1"] }

(* ------------------------------------------------------------------ *)
(* Errors. An error is its message, a sequence of words; nil is the    *)
(* empty sequence.                                                     *)
(* ------------------------------------------------------------------ *)

nil == << >>

\* strings.Contains, on words.
Contains(msg, w) == \E i \in 1..Len(msg) : msg[i] = w

\* Errors bind.StoreServer and store.Put may return.
BindErrors == { <<"bind", "refused">> }
PutErrors == { <<"put", "timeout">>, <<"put", "status", "400">>, <<"put", "refused">> }

\* errors.Errorf("refdata mismatch expected %q got %q", ...)
MismatchError(want, got) == <<"refdata", "mismatch", "expected", want, "got", got>>

\* isTimeout returns true if this was the result of a server timeout.
isTimeout(err) == Contains(err, "timeout") \/ Contains(err, "400")

(* ------------------------------------------------------------------ *)
(* parallelism: the record [inFlight, max, successes].                 *)
(* ------------------------------------------------------------------ *)

newParallelism(max) ==
    [inFlight |-> 0, max |-> IF max < 1 THEN 1 ELSE max, successes |-> 0]

\* failure without its check of inFlight against max: every timeout halves.
failureHalvesAlways(p, err) ==
    LET q == [p EXCEPT !.inFlight = p.inFlight - 1] IN
    IF ~isTimeout(err) THEN [p |-> q, dealt |-> FALSE]
    ELSE [p |-> [q EXCEPT !.successes = 0, !.max = (q.max + 1) \div 2],
          dealt |-> TRUE]

\* failure halving with (max / 2), which rounds down.
failureRoundsDown(p, err) ==
    LET q == [p EXCEPT !.inFlight = p.inFlight - 1] IN
    IF ~isTimeout(err) THEN [p |-> q, dealt |-> FALSE]
    ELSE LET z == [q EXCEPT !.successes = 0] IN
         IF z.inFlight >= z.max THEN [p |-> z, dealt |-> TRUE]
         ELSE [p |-> [z EXCEPT !.max = z.max \div 2], dealt |-> TRUE]

\* failure starting the count of successes again on every error.
failureBreaksRun(p, err) ==
    LET q == [p EXCEPT !.inFlight = p.inFlight - 1, !.successes = 0] IN
    IF ~isTimeout(err) THEN [p |-> q, dealt |-> FALSE]
    ELSE IF q.inFlight >= q.max THEN [p |-> q, dealt |-> TRUE]
         ELSE [p |-> [q EXCEPT !.max = (q.max + 1) \div 2], dealt |-> TRUE]

\* failure leaving the count of successes as it is after a timeout.
failureKeepsRun(p, err) ==
    LET q == [p EXCEPT !.inFlight = p.inFlight - 1] IN
    IF ~isTimeout(err) THEN [p |-> q, dealt |-> FALSE]
    ELSE IF q.inFlight >= q.max THEN [p |-> q, dealt |-> TRUE]
         ELSE [p |-> [q EXCEPT !.max = (q.max + 1) \div 2], dealt |-> TRUE]

\* failure is called when a writeback fails; dealt is its result.
failure(p, err) ==
    LET q == [p EXCEPT !.inFlight = p.inFlight - 1] IN
    IF ~isTimeout(err) THEN [p |-> q, dealt |-> FALSE]
    ELSE LET z == [q EXCEPT !.successes = 0] IN
         IF z.inFlight >= z.max THEN [p |-> z, dealt |-> TRUE]
         ELSE [p |-> [z EXCEPT !.max = (z.max + 1) \div 2], dealt |-> TRUE]

\* success that keeps its count when it increments max.
successKeepsCount(p) ==
    LET q == [p EXCEPT !.inFlight = p.inFlight - 1] IN
    IF q.inFlight + 1 < q.max THEN q
    ELSE LET c == [q EXCEPT !.successes = q.successes + 1] IN
         IF c.max = writers THEN c
         ELSE IF c.successes >= c.max THEN [c EXCEPT !.max = c.max + 1] ELSE c

\* success comparing the decremented inFlight with max.
successLoadOffByOne(p) ==
    LET q == [p EXCEPT !.inFlight = p.inFlight - 1] IN
    IF q.inFlight < q.max THEN q
    ELSE LET c == [q EXCEPT !.successes = q.successes + 1] IN
         IF c.max = writers THEN c
         ELSE IF c.successes >= c.max
              THEN [c EXCEPT !.successes = 0, !.max = c.max + 1]
              ELSE c

\* success without the limit of max to the number of writers.
successUnbounded(p) ==
    LET q == [p EXCEPT !.inFlight = p.inFlight - 1] IN
    IF q.inFlight + 1 < q.max THEN q
    ELSE LET c == [q EXCEPT !.successes = q.successes + 1] IN
         IF c.successes >= c.max
         THEN [c EXCEPT !.successes = 0, !.max = c.max + 1]
         ELSE c

\* success counting every completion, whatever the load.
successCountsAlways(p) ==
    LET q == [p EXCEPT !.inFlight = p.inFlight - 1]
        c == [q EXCEPT !.successes = q.successes + 1]
    IN  IF c.max = writers THEN c
        ELSE IF c.successes >= c.max
             THEN [c EXCEPT !.successes = 0, !.max = c.max + 1]
             ELSE c

\* success is called whenever a writeback succeeds.
success(p) ==
    LET q == [p EXCEPT !.inFlight = p.inFlight - 1] IN
    IF q.inFlight + 1 < q.max THEN q
    ELSE LET c == [q EXCEPT !.successes = q.successes + 1] IN
         IF c.max = writers THEN c
         ELSE IF c.successes >= c.max
              THEN [c EXCEPT !.successes = 0, !.max = c.max + 1]
              ELSE c

\* ok letting a request start when inFlight has reached max.
okAtMax(p) == p.inFlight <= p.max

ok(p) == p.inFlight < p.max

\* add counting a request twice.
addTwice(p) == [p EXCEPT !.inFlight = p.inFlight + 2]

add(p) == [p EXCEPT !.inFlight = p.inFlight + 1]


(* ------------------------------------------------------------------ *)
(* State.                                                              *)
(* ------------------------------------------------------------------ *)

VARIABLES
    links,         \* the locations whose writeback link exists in the cache directory
    reqs,          \* the request objects ever made: [loc, err, flushChans], by identity,
                   \* << L, n >> for the n-th request made for location L
    request,       \* chan *request: identities of requests sent to the scheduler
    flushRequest,  \* chan *flushRequest: the latches of the flush requests sent
    ready,         \* chan *request: requests ready for writers
    done,          \* chan *request: completed requests
    retry,         \* chan *endpointQueue: queues to retry, by endpoint
    byEndpoint,    \* map[upspin.Endpoint]*endpointQueue: [queue, state]
    queued,        \* map[upspin.Location]*request
    p,             \* the scheduler's parallelism
    working,       \* the requests held by writers, between receive and send on done
    timers,        \* per endpoint, the time.AfterFunc timers armed and not yet fired
    latch,         \* the flushed channels ever made: [loc, closes] and their history
    written,       \* history: the requests whose writeback returned nil
    cycle,         \* history: per location, links made, puts and link removals since
                   \* the location last left the queued map
    closeLog,      \* history: the latches in the order they were closed
    handleLog,     \* history: the latches in the order the scheduler handled them
    nFail,         \* history: the writebacks that ended with an error
    nReadErr,      \* history: the reads of a writeback link that failed
    panicked,      \* a goroutine panicked (close of a closed channel, nil queue)
    walk,          \* the paths of the cache directory the start-up walk has not visited
    scanned,       \* history: the paths the walk has visited, each with what
                   \* enqueueWritebackFile returned for it
    die,           \* chan bool: TRUE once close has closed it
    sched,         \* the scheduler: "run" in its loop, "term" sending on terminated
                   \* in the die case, "exit" returned
    wTerm,         \* the number of writers sending on terminated in the die case
    wExit          \* the number of writers that have returned

\* The variables of start-up and shutdown.
runVars == << walk, scanned, die, sched, wTerm, wExit >>

vars == << links, reqs, request, flushRequest, ready, done, retry,
           byEndpoint, queued, p, working, timers, latch, written, cycle,
           closeLog, handleLog, nFail, nReadErr, panicked, runVars >>

References == { L.Reference : L \in Locations }

noCycle == [links |-> 0, puts |-> 0, removes |-> 0]

\* newWritebackQueue, on an empty cache directory.
Init ==
    /\ links = {}
    /\ reqs = [id \in {} |-> 0]
    /\ request = << >>
    /\ flushRequest = << >>
    /\ ready = << >>
    /\ done = << >>
    /\ retry = << >>
    /\ byEndpoint = [e \in {} |-> 0]
    /\ queued = [L \in {} |-> 0]
    /\ p = newParallelism(initialMaxParallel)
    /\ working = {}
    /\ timers = [e \in Endpoints |-> 0]
    /\ latch = << >>
    /\ written = {}
    /\ cycle = [L \in Locations |-> noCycle]
    /\ closeLog = << >>
    /\ handleLog = << >>
    /\ nFail = 0
    /\ nReadErr = 0
    /\ panicked = FALSE
    /\ walk = {}
    /\ scanned = {}
    /\ die = FALSE
    /\ sched = "run"
    /\ wTerm = 0
    /\ wExit = 0

(* ------------------------------------------------------------------ *)
(* Helpers on sequences and maps.                                      *)
(* ------------------------------------------------------------------ *)

Range(s) == { s[i] : i \in 1..Len(s) }

\* The orders in which a range over a map with these keys may visit them.
Perms(S) ==
    { s \in [1..Cardinality(S) -> S] : \A i, j \in 1..Cardinality(S) : s[i] = s[j] => i = j }

\* m with key k set to v (k may be new).
Put(m, k, v) == [x \in DOMAIN m \cup {k} |-> IF x = k THEN v ELSE m[x]]

\* delete(m, k)
Delete(m, k) == [x \in DOMAIN m \ {k} |-> m[x]]

\* The number of places of s that hold a request for location L.
CountLoc(s, L) == Cardinality({ i \in 1..Len(s) : reqs[s[i]].loc = L })

\* No request (a nil *request).
NoReq == << >>

\* The number of requests made for L.
NumSent(L) == Cardinality({ id \in DOMAIN reqs : id[1] = L })

\* The latest request sent for L by requestWriteback, NoReq when there is none.
LastSent(L) == IF NumSent(L) = 0 THEN NoReq ELSE << L, NumSent(L) >>


(* ------------------------------------------------------------------ *)
(* The scheduler's dispatch: pickAndQueue and the loop that calls it.  *)
(* A dispatch state is [byEndpoint, p, ready].                         *)
(* ------------------------------------------------------------------ *)

\* probeState leaving an unknown endpoint unknown.
probeStateKeeps(state) == state

\* The state of a queue after a request was sent from it: an unknown
\* endpoint is assumed dead until the request terminates.
probeState(state) == IF state = unknown THEN dead ELSE state

\* take sending the request that was appended last.
takeLast(queue) ==
    [r |-> queue[Len(queue)], queue |-> SubSeq(queue, 1, Len(queue) - 1)]

\* r := q.queue[0], and q.queue = q.queue[1:] once r is sent.
take(queue) == [r |-> Head(queue), queue |-> Tail(queue)]

\* One pass of pickAndQueue over the queues in the given order, from the
\* i-th on; ret is the value pickAndQueue returns.
RECURSIVE pickLoop(_, _, _, _)
pickLoop(st, order, i, sent) ==
    IF i > Len(order) THEN [st |-> st, ret |-> sent]
    ELSE LET e == order[i]
             q == st.byEndpoint[e]
         IN  IF ~ok(st.p) THEN [st |-> st, ret |-> FALSE]
             ELSE IF q.state = dead THEN pickLoop(st, order, i + 1, sent)
             ELSE IF Len(q.queue) = 0 THEN pickLoop(st, order, i + 1, sent)
             ELSE IF Len(st.ready) < writers
                  THEN pickLoop(
                         [byEndpoint |-> [st.byEndpoint EXCEPT ![e] =
                                            [queue |-> take(q.queue).queue,
                                             state |-> probeState(q.state)]],
                          p |-> add(st.p),
                          ready |-> Append(st.ready, take(q.queue).r)],
                         order, i + 1, TRUE)
                  ELSE [st |-> st, ret |-> FALSE]

pickAndQueue(st, order) == pickLoop(st, order, 1, FALSE)

\* fillReady calling pickAndQueue once.
fillReadyOnce(st) == { pickAndQueue(st, o).st : o \in Perms(DOMAIN st.byEndpoint) }

\* "Fill the ready queue": the dispatch states the loop may end in, one for
\* each choice of the orders in which the passes range over the map.
RECURSIVE fillReady(_)
fillReady(st) ==
    UNION { LET r == pickAndQueue(st, o) IN
            IF r.ret THEN fillReady(r.st) ELSE {r.st}
            : o \in Perms(DOMAIN st.byEndpoint) }

\* The scheduler's state after the select's case left be, par and the other
\* variables as given: the dispatch loop runs and the step ends.
Dispatch(be, par) ==
    \E st \in fillReady([byEndpoint |-> be, p |-> par, ready |-> ready]) :
        /\ byEndpoint' = st.byEndpoint
        /\ p' = st.p
        /\ ready' = st.ready

(* ------------------------------------------------------------------ *)
(* Closing flushed channels.                                           *)
(* ------------------------------------------------------------------ *)

\* close(c) for each c of chans in turn, by a step of the given kind: the
\* latches and the close log after it. absent: the location is not in the
\* queued map when the step ends.
RECURSIVE closeEach(_, _, _, _, _)
closeEach(lt, log, chans, by, q) ==
    IF chans = << >> THEN [latch |-> lt, log |-> log]
    ELSE LET c == Head(chans) IN
         closeEach([lt EXCEPT ![c].closes = @ + 1, ![c].by = by,
                              ![c].absent = lt[c].loc \notin DOMAIN q],
                   Append(log, c), Tail(chans), by, q)

\* awaken closing every channel twice.
awakenTwice(chans) == chans \o chans

\* awaken closing the channels last to first.
awakenReversed(chans) == [i \in 1..Len(chans) |-> chans[Len(chans) + 1 - i]]

\* "Awaken everyone waiting for a flush": the channels closed, in order.
awaken(chans) == chans

\* A close of a closed channel panics.
Panics(lt) == \E c \in 1..Len(lt) : lt[c].closes > 1


(* ------------------------------------------------------------------ *)
(* Clients: requestWriteback and flush.                                *)
(* ------------------------------------------------------------------ *)

\* requestWriteback when os.Link succeeds: the link is made and the request
\* is sent to the scheduler. (The send is on a channel of capacity writers,
\* which the requests of these bounds never fill.) The clients make at
\* most maxReq requests.
requestWriteback(L, maxReq) ==
    /\ L \notin links
    /\ Cardinality(DOMAIN reqs) < maxReq
    /\ Len(request) < writers
    /\ links' = links \cup {L}
    /\ cycle' = [cycle EXCEPT ![L].links = @ + 1]
    /\ reqs' = Put(reqs, << L, NumSent(L) + 1 >>,
                   [loc |-> L, err |-> nil, flushChans |-> << >>])
    /\ request' = Append(request, << L, NumSent(L) + 1 >>)
    /\ UNCHANGED << flushRequest, ready, done, retry, byEndpoint, queued, p, working,
                    timers, latch, written, closeLog, handleLog, nFail, nReadErr,
                    panicked,
                    runVars >>

RequestWriteback(L) == requestWriteback(L, MaxReq)

\* requestWriteback when os.Link fails with "exists": someone else is already
\* writing it back, and nil is returned.
RequestWritebackExists(L) ==
    /\ L \in links
    /\ UNCHANGED vars

\* The request a flush of L called now comes after: the latest one sent for L
\* by a requestWriteback that returned, unless its writeback has returned nil.
PendingSent(L) ==
    IF LastSent(L) \in written THEN NoReq ELSE LastSent(L)

\* flush, up to the send; the caller then waits for flushed to be closed.
Flush(L) ==
    /\ Len(latch) < MaxFlush
    /\ Len(flushRequest) < writers
    /\ latch' = Append(latch, [loc |-> L, closes |-> 0, by |-> "", absent |-> FALSE,
                               req |-> NoReq, after |-> PendingSent(L)])
    /\ flushRequest' = Append(flushRequest, Len(latch) + 1)
    /\ UNCHANGED << links, reqs, request, ready, done, retry, byEndpoint,
                    queued, p, working, timers, written, cycle, closeLog, handleLog,
                    nFail, nReadErr, panicked,
                    runVars >>


(* ------------------------------------------------------------------ *)
(* Start-up: the paths of the cache directory and enqueueWritebackFile. *)
(* A path below the cache directory is [elems, tail]: its components,   *)
(* and what follows the reference in the last one.                      *)
(* ------------------------------------------------------------------ *)

\* Terminating characters for writeback link names.
writebackSuffix == "_wbf"

\* The string of an endpoint, and upspin.ParseEndpoint: [err, e].
EndpointString(e) == << "remote", e >>
ParseEndpoint(str) ==
    IF Len(str) = 2 /\ str[1] = "remote" /\ str[2] \in Endpoints
    THEN [err |-> FALSE, e |-> str[2]]
    ELSE [err |-> TRUE, e |-> ""]

\* The path of the cache file of a reference, and of its writeback link.
cachePath(ref, e) == [elems |-> << EndpointString(e), "blk", ref >>, tail |-> ""]
linkPath(L) == [cachePath(L.Reference, L.Endpoint) EXCEPT !.tail = writebackSuffix]

\* strings.TrimSuffix(path, writebackSuffix)
TrimSuffix(path) == IF path.tail = writebackSuffix THEN [path EXCEPT !.tail = ""] ELSE path

\* enqueueWritebackFile taking the reference from the second component.
enqueueWritebackFileSecond(path) ==
    LET f == TrimSuffix(path) IN
    IF f = path THEN [ret |-> FALSE, send |-> << >>]
    ELSE IF Len(f.elems) # 3 THEN [ret |-> TRUE, send |-> << >>]
    ELSE LET pe == ParseEndpoint(f.elems[1]) IN
         IF pe.err THEN [ret |-> TRUE, send |-> << >>]
         ELSE [ret |-> TRUE,
               send |-> << [Reference |-> f.elems[2], Endpoint |-> pe.e] >>]

\* enqueueWritebackFile taking every path with three components or more.
enqueueWritebackFileAtLeastThree(path) ==
    LET f == TrimSuffix(path) IN
    IF f = path THEN [ret |-> FALSE, send |-> << >>]
    ELSE IF Len(f.elems) < 3 THEN [ret |-> TRUE, send |-> << >>]
    ELSE LET pe == ParseEndpoint(f.elems[1]) IN
         IF pe.err THEN [ret |-> TRUE, send |-> << >>]
         ELSE [ret |-> TRUE,
               send |-> << [Reference |-> f.elems[3], Endpoint |-> pe.e] >>]

\* enqueueWritebackFile: what it returns and the locations of the requests
\* it sends (none or one).
enqueueWritebackFile(path) ==
    LET f == TrimSuffix(path) IN
    IF f = path THEN [ret |-> FALSE, send |-> << >>]
    ELSE IF Len(f.elems) # 3 THEN [ret |-> TRUE, send |-> << >>]
    ELSE LET pe == ParseEndpoint(f.elems[1]) IN
         IF pe.err THEN [ret |-> TRUE, send |-> << >>]
         ELSE [ret |-> TRUE,
               send |-> << [Reference |-> f.elems[3], Endpoint |-> pe.e] >>]

\* The start-up walk calls enqueueWritebackFile for a path of the cache
\* directory.
EnqueueWritebackFile(path) ==
    /\ path \in walk
    /\ walk' = walk \ {path}
    /\ scanned' = scanned \cup { [path |-> path, ret |-> enqueueWritebackFile(path).ret] }
    /\ LET r == enqueueWritebackFile(path) IN
       IF r.send = << >>
       THEN UNCHANGED << reqs, request >>
       ELSE LET L == r.send[1] IN
            /\ Len(request) < writers
            /\ reqs' = Put(reqs, << L, NumSent(L) + 1 >>,
                           [loc |-> L, err |-> nil, flushChans |-> << >>])
            /\ request' = Append(request, << L, NumSent(L) + 1 >>)
    /\ UNCHANGED << links, flushRequest, ready, done, retry, byEndpoint, queued, p,
                    working, timers, latch, written, cycle, closeLog, handleLog,
                    nFail, nReadErr, panicked, die, sched, wTerm, wExit >>

(* ------------------------------------------------------------------ *)
(* The scheduler: one action for each case of its select, each ending  *)
(* with the dispatch loop.                                             *)
(* ------------------------------------------------------------------ *)

\* isQueued without the lookup: every request is taken as new.
isQueuedNever(q, L) == FALSE

\* wbq.queued[r.Location] != nil
isQueued(q, L) == L \in DOMAIN q

\* The queue for endpoint e, made in unknown state when e is new, with
\* request id appended.
enqueue(be, e, id) ==
    LET epq == IF e \in DOMAIN be THEN be[e] ELSE [queue |-> << >>, state |-> unknown]
    IN  Put(be, e, [epq EXCEPT !.queue = Append(@, id)])

\* case r := <-wbq.request
SchedRequest ==
    /\ ~panicked
    /\ sched = "run"
    /\ request # << >>
    /\ LET id == Head(request)
           L == reqs[id].loc
       IN  /\ request' = Tail(request)
           /\ IF isQueued(queued, L)
              THEN /\ queued' = queued
                   /\ Dispatch(byEndpoint, p)
              ELSE /\ queued' = Put(queued, L, id)
                   /\ Dispatch(enqueue(byEndpoint, L.Endpoint, id), p)
    /\ UNCHANGED << links, reqs, flushRequest, done, retry, working, timers,
                    latch, written, cycle, closeLog, handleLog, nFail, nReadErr,
                    panicked,
                    runVars >>

\* requeue putting the failed request first in the queue.
requeueAtHead(queue, id) == << id >> \o queue

\* epq.queue = append(epq.queue, r) for a request that failed.
requeue(queue, id) == Append(queue, id)

\* marksDead without the test of the queue's state: every error that
\* p.failure has not dealt with arms a timer.
marksDeadAlways(dealt, state) == ~dealt

\* Whether a failed request marks its endpoint dead and arms a retry timer:
\* p.failure has not dealt with the error and the queue is not dead already.
marksDead(dealt, state) == ~dealt /\ state # dead

\* succeeded leaving the queue in the state it has.
succeededKeeps(state) == state

\* The state of a queue after one of its requests succeeded: "Mark endpoint
\* as live so we can queue more requests for it."
succeeded(state) == live

\* case r := <-wbq.done
SchedDone ==
    /\ ~panicked
    /\ sched = "run"
    /\ done # << >>
    /\ LET id == Head(done)
           r == reqs[id]
           L == r.loc
           e == L.Endpoint
       IN  /\ done' = Tail(done)
           /\ IF e \notin DOMAIN byEndpoint
              THEN \* epq is nil
                   /\ panicked' = TRUE
                   /\ UNCHANGED << byEndpoint, queued, p, ready, timers, latch,
                                   closeLog, cycle >>
              ELSE IF r.err # nil
              THEN LET be1 == [byEndpoint EXCEPT ![e].queue = requeue(@, id)]
                       f == failure(p, r.err)
                       md == marksDead(f.dealt, be1[e].state)
                       be2 == IF md THEN [be1 EXCEPT ![e].state = dead] ELSE be1
                   IN  /\ timers' = IF md THEN [timers EXCEPT ![e] = @ + 1] ELSE timers
                       /\ queued' = queued
                       /\ latch' = latch
                       /\ closeLog' = closeLog
                       /\ panicked' = panicked
                       /\ cycle' = cycle
                       /\ Dispatch(be2, f.p)
              ELSE LET be1 == [byEndpoint EXCEPT ![e].state = succeeded(@)]
                       q1 == Delete(queued, L)
                       cl == closeEach(latch, closeLog, awaken(r.flushChans), "done", q1)
                   IN  /\ timers' = timers
                       /\ queued' = q1
                       /\ latch' = cl.latch
                       /\ closeLog' = cl.log
                       /\ panicked' = Panics(cl.latch)
                       /\ cycle' = [cycle EXCEPT ![L] = noCycle]
                       /\ Dispatch(be1, success(p))
    /\ UNCHANGED << links, reqs, request, flushRequest, retry, working,
                    written, handleLog, nFail, nReadErr,
                    runVars >>

\* retried without the test of the state: every signal gives unknown.
retriedAlways(state) == unknown

\* The state of a queue after its retry signal: unknown if it was dead.
retried(state) == IF state = dead THEN unknown ELSE state

\* case epq := <-wbq.retry
SchedRetry ==
    /\ ~panicked
    /\ sched = "run"
    /\ retry # << >>
    /\ LET e == Head(retry) IN
           /\ retry' = Tail(retry)
           /\ Dispatch([byEndpoint EXCEPT ![e].state = retried(@)], p)
    /\ UNCHANGED << links, reqs, request, flushRequest, done, queued, working,
                    timers, latch, written, cycle, closeLog, handleLog, nFail,
                    nReadErr, panicked,
                    runVars >>

\* notInFlight without the lookup: every flush is answered at once.
notInFlightAlways(q, L) == TRUE

\* r := wbq.queued[fr.Location]; r == nil
notInFlight(q, L) == L \notin DOMAIN q

\* case fr := <-wbq.flushRequest
SchedFlush ==
    /\ ~panicked
    /\ sched = "run"
    /\ flushRequest # << >>
    /\ LET c == Head(flushRequest)
           L == latch[c].loc
       IN  /\ flushRequest' = Tail(flushRequest)
           /\ handleLog' = Append(handleLog, c)
           /\ IF notInFlight(queued, L)
              THEN \* Not in flight
                   LET cl == closeEach(latch, closeLog, << c >>, "flush", queued) IN
                   /\ latch' = cl.latch
                   /\ closeLog' = cl.log
                   /\ reqs' = reqs
              ELSE /\ reqs' = [reqs EXCEPT ![queued[L]].flushChans = Append(@, c)]
                   /\ latch' = [latch EXCEPT ![c].req = queued[L]]
                   /\ closeLog' = closeLog
           /\ Dispatch(byEndpoint, p)
    /\ UNCHANGED << links, request, done, retry, queued, working, timers,
                    written, cycle, nFail, nReadErr, panicked,
                    runVars >>


(* ------------------------------------------------------------------ *)
(* The writers.                                                        *)
(* ------------------------------------------------------------------ *)

\* The writers waiting in their select.
idleWriters == writers - Cardinality(working) - wTerm - wExit

\* writer: case r := <-wbq.ready, and r.err = nil.
WriterReceive ==
    /\ idleWriters > 0
    /\ ready # << >>
    /\ LET id == Head(ready) IN
           /\ ready' = Tail(ready)
           /\ reqs' = [reqs EXCEPT ![id].err = nil]
           /\ working' = working \cup {id}
    /\ UNCHANGED << links, request, flushRequest, done, retry, byEndpoint,
                    queued, p, timers, latch, written, cycle, closeLog, handleLog,
                    nFail, nReadErr, panicked,
                    runVars >>

\* What the reads and calls of writeback may give for a request of location
\* L: [kind, err], kind naming the statement writeback returns from. At
\* most maxFail writebacks fail and maxReadErr reads of a link fail.
outcomes(L, maxFail, maxReadErr) ==
    IF L \notin links THEN { [kind |-> "readerr", err |-> nil] }
    ELSE { [kind |-> "ok", err |-> nil] }
         \cup (IF nReadErr < maxReadErr THEN { [kind |-> "readerr", err |-> nil] } ELSE {})
         \cup (IF nFail < maxFail
               THEN { [kind |-> "binderr", err |-> m] : m \in BindErrors }
                    \cup { [kind |-> "puterr", err |-> m] : m \in PutErrors }
                    \cup { [kind |-> "mismatch", err |-> MismatchError(L.Reference, got)] :
                           got \in References \ {L.Reference} }
               ELSE {})

Outcomes(L) == outcomes(L, MaxFail, MaxReadErr)

\* removesLink with the check of the returned reference after os.Remove.
removesLinkOnMismatch(kind) == kind \in {"ok", "mismatch"}

\* Whether writeback reaches os.Remove(file).
removesLink(kind) == kind = "ok"

\* Whether writeback calls store.Put.
puts(kind) == kind \in {"ok", "puterr", "mismatch"}

\* writer: r.err = wbq.writeback(r), and wbq.done <- r. At most maxFail
\* writebacks fail and maxReadErr reads of a link fail.
writeback(id, maxFail, maxReadErr) ==
    /\ id \in working
    /\ Len(done) < writers
    /\ LET L == reqs[id].loc IN
       \E out \in outcomes(L, maxFail, maxReadErr) :
           /\ reqs' = [reqs EXCEPT ![id].err = out.err]
           /\ links' = IF removesLink(out.kind) THEN links \ {L} ELSE links
           /\ written' = IF out.err = nil THEN written \cup {id} ELSE written
           /\ cycle' = [cycle EXCEPT
                          ![L].puts = IF puts(out.kind) THEN @ + 1 ELSE @,
                          ![L].removes = IF removesLink(out.kind) /\ L \in links
                                         THEN @ + 1 ELSE @]
           /\ nFail' = IF out.err # nil THEN nFail + 1 ELSE nFail
           /\ nReadErr' = IF out.kind = "readerr" /\ L \in links
                          THEN nReadErr + 1 ELSE nReadErr
    /\ working' = working \ {id}
    /\ done' = Append(done, id)
    /\ UNCHANGED << request, flushRequest, ready, retry, byEndpoint, queued,
                    p, timers, latch, closeLog, handleLog, panicked,
                    runVars >>

WriterWriteback(id) == writeback(id, MaxFail, MaxReadErr)

(* ------------------------------------------------------------------ *)
(* The retry timers.                                                   *)
(* ------------------------------------------------------------------ *)

\* time.AfterFunc(retryInterval, func() { wbq.retry <- epq })
TimerFire(e) ==
    /\ timers[e] > 0
    /\ Len(retry) < writers
    /\ timers' = [timers EXCEPT ![e] = @ - 1]
    /\ retry' = Append(retry, e)
    /\ UNCHANGED << links, reqs, request, flushRequest, ready, done,
                    byEndpoint, queued, p, working, latch, written, cycle, closeLog,
                    handleLog, nFail, nReadErr, panicked,
                    runVars >>

(* ------------------------------------------------------------------ *)
(* Shutdown: close, and the die cases of the scheduler and the writers. *)
(* terminated is unbuffered: a send on it ends when close receives.     *)
(* ------------------------------------------------------------------ *)

progVars == << links, reqs, request, flushRequest, ready, done, retry, byEndpoint,
               queued, p, working, timers, latch, written, cycle, closeLog,
               handleLog, nFail, nReadErr, panicked, walk, scanned >>

\* close receiving from terminated once for every writer only.
acksWantedWritersOnly == writers

\* The number of values close receives from terminated.
acksWanted == writers + 1

\* The number of values close has received: one from each goroutine that
\* has returned.
acks == wExit + (IF sched = "exit" THEN 1 ELSE 0)

\* close has returned.
closeReturned == die /\ acks >= acksWanted

\* close: close(wbq.die).
Close ==
    /\ ~die
    /\ die' = TRUE
    /\ UNCHANGED << progVars, sched, wTerm, wExit >>

\* scheduler: case <-wbq.die, up to the send on terminated.
SchedDie ==
    /\ ~panicked
    /\ sched = "run"
    /\ die
    /\ sched' = "term"
    /\ UNCHANGED << progVars, die, wTerm, wExit >>

\* writer: case <-wbq.die, up to the send on terminated.
WriterDie ==
    /\ idleWriters > 0
    /\ die
    /\ wTerm' = wTerm + 1
    /\ UNCHANGED << progVars, die, sched, wExit >>

\* close receives the value the scheduler sends on terminated; the
\* scheduler returns.
SchedTerminated ==
    /\ sched = "term"
    /\ die /\ acks < acksWanted
    /\ sched' = "exit"
    /\ UNCHANGED << progVars, die, wTerm, wExit >>

\* close receives the value a writer sends on terminated; the writer returns.
WriterTerminated ==
    /\ wTerm > 0
    /\ die /\ acks < acksWanted
    /\ wTerm' = wTerm - 1
    /\ wExit' = wExit + 1
    /\ UNCHANGED << progVars, die, sched >>

(* ------------------------------------------------------------------ *)
(* The specification of the writeback queue.                           *)
(* ------------------------------------------------------------------ *)

Next ==
    \/ \E L \in Locations : RequestWriteback(L)
    \/ \E L \in Locations : RequestWritebackExists(L)
    \/ \E L \in FlushLocations : Flush(L)
    \/ SchedRequest
    \/ SchedDone
    \/ SchedRetry
    \/ SchedFlush
    \/ WriterReceive
    \/ \E id \in working : WriterWriteback(id)
    \/ \E e \in Endpoints : TimerFire(e)

Spec == Init /\ [][Next]_vars


(* ------------------------------------------------------------------ *)
(* The writeback queue with its shutdown.                              *)
(* ------------------------------------------------------------------ *)

\* A writeback when the reads of the links succeed and the endpoints accept
\* the puts.
PutAccepted(id) == writeback(id, 0, 0)

\* The steps of the scheduler and the writers as seen on the channel each
\* takes from (no other step takes from it); fairness is stated on these.
ReceivesRequest ==
    ~panicked /\ sched = "run" /\ request # << >> /\ request' = Tail(request)
ReceivesDone ==
    ~panicked /\ sched = "run" /\ done # << >> /\ done' = Tail(done)
ReceivesReady ==
    idleWriters > 0 /\ ready # << >> /\ ready' = Tail(ready)
PutReturns ==
    \E id \in working : Len(done) < writers /\ working' = working \ {id}
WalkVisits ==
    \E path \in walk :
        /\ enqueueWritebackFile(path).send = << >> \/ Len(request) < writers
        /\ walk' = walk \ {path}

\* The clients request writebacks, which the endpoints accept, and close
\* the queue.
CloseNext ==
    \/ \E L \in Locations : RequestWriteback(L)
    \/ SchedRequest
    \/ SchedDone
    \/ WriterReceive
    \/ \E id \in working : PutAccepted(id)
    \/ Close
    \/ SchedDie
    \/ WriterDie
    \/ SchedTerminated
    \/ WriterTerminated

\* A goroutine in its select with die closed takes the die case in the end
\* (the select chooses among the ready cases at random), and close, in its
\* loop, receives what is sent on terminated.
DieFairness ==
    /\ WF_vars(SchedDie)
    /\ WF_vars(WriterDie)
    /\ WF_vars(SchedTerminated)
    /\ WF_vars(WriterTerminated)

\* Every remote put in progress returns.
PutFairness == WF_working(PutReturns)

\* Shutdown when every put returns.
CloseSpec == Init /\ [][CloseNext]_vars /\ DieFairness /\ PutFairness

\* Shutdown when a put may block for ever.
AbandonSpec == Init /\ [][CloseNext]_vars /\ DieFairness

(* ------------------------------------------------------------------ *)
(* The writeback queue and the shutdown of its scheduler: everything   *)
(* the clients, the writers and the timers do, and close closing die.  *)
(* (The die case of the writers is part of CloseSpec.)                 *)
(* ------------------------------------------------------------------ *)

DieNext ==
    \/ Next
    \/ Close
    \/ SchedDie
    \/ SchedTerminated

DieSpec == Init /\ [][DieNext]_vars

(* ------------------------------------------------------------------ *)
(* The writeback queue with a slow endpoint: the puts to e1 may block  *)
(* for ever, those to the other endpoints return.                      *)
(* ------------------------------------------------------------------ *)

\* A writeback to e returns (every read of a link succeeds).
SlowWriteback(e) ==
    \E id \in working :
        /\ reqs[id].loc.Endpoint = e
        /\ writeback(id, MaxSlowFail, 0)

SlowNext ==
    \/ \E L \in Locations : requestWriteback(L, MaxSlowReq)
    \/ SchedRequest
    \/ SchedDone
    \/ SchedRetry
    \/ WriterReceive
    \/ \E e \in Endpoints : SlowWriteback(e)
    \/ \E e \in Endpoints : TimerFire(e)

SlowSpec == Init /\ [][SlowNext]_vars

(* ------------------------------------------------------------------ *)
(* The writeback queue started on a cache directory that holds links.  *)
(* ------------------------------------------------------------------ *)

\* The links the cache directory may hold at start-up.
LinkPaths == { linkPath(L) : L \in Locations }

\* Other paths it may hold: a cache file, and paths ending in the suffix
\* with two components, with four, and with no endpoint in the first.
OddPaths ==
    { cachePath("r1", "e1"),
      [elems |-> << EndpointString("e1"), "r1" >>, tail |-> writebackSuffix],
      [elems |-> << EndpointString("e1"), "blk", "sub", "r1" >>, tail |-> writebackSuffix],
      [elems |-> << << "bogus" >>, "blk", "r1" >>, tail |-> writebackSuffix] }

\* newWritebackQueue on a cache directory left by an earlier run.
RecoverInit ==
    /\ \E D \in SUBSET (LinkPaths \cup OddPaths) :
           /\ walk = D
           /\ links = { L \in Locations : linkPath(L) \in D }
           /\ cycle = [L \in Locations |->
                         IF linkPath(L) \in D THEN [noCycle EXCEPT !.links = 1] ELSE noCycle]
    /\ reqs = [id \in {} |-> 0]
    /\ request = << >>
    /\ flushRequest = << >>
    /\ ready = << >>
    /\ done = << >>
    /\ retry = << >>
    /\ byEndpoint = [e \in {} |-> 0]
    /\ queued = [L \in {} |-> 0]
    /\ p = newParallelism(initialMaxParallel)
    /\ working = {}
    /\ timers = [e \in Endpoints |-> 0]
    /\ latch = << >>
    /\ written = {}
    /\ closeLog = << >>
    /\ handleLog = << >>
    /\ nFail = 0
    /\ nReadErr = 0
    /\ panicked = FALSE
    /\ scanned = {}
    /\ die = FALSE
    /\ sched = "run"
    /\ wTerm = 0
    /\ wExit = 0

\* The walk, the clients' requests, the scheduler and the writers, the
\* endpoints accepting the puts.
RecoverNext ==
    \/ \E path \in walk : EnqueueWritebackFile(path)
    \/ \E L \in Locations : RequestWriteback(L)
    \/ SchedRequest
    \/ SchedDone
    \/ WriterReceive
    \/ \E id \in working : PutAccepted(id)

\* The walk visits every path, the scheduler and the writers take what
\* their channels hold, and the puts return.
RecoverFairness ==
    /\ WF_walk(WalkVisits)
    /\ WF_request(ReceivesRequest)
    /\ WF_done(ReceivesDone)
    /\ WF_ready(ReceivesReady)
    /\ PutFairness

RecoverSpec == RecoverInit /\ [][RecoverNext]_vars /\ RecoverFairness

(* ------------------------------------------------------------------ *)
(* pickAndQueue on its own: the passes of the dispatch loop from the   *)
(* states the cases of the select may leave.                           *)
(* ------------------------------------------------------------------ *)

\* The largest ceiling the passes start from.
MaxPickMax == 3

\* One request for every location.
PickReqs ==
    [id \in { << L, 1 >> : L \in Locations } |->
        [loc |-> id[1], err |-> nil, flushChans |-> << >>]]

\* The queues of endpoint e: its requests in any order, or some of them.
PickQueues(e) ==
    LET ids == { id \in DOMAIN PickReqs : id[1].Endpoint = e } IN
    UNION { Perms(S) : S \in SUBSET ids }

\* The scheduler about to fill the ready queue: every location has its
\* request, in the queue of its endpoint or with a writer; the queues are in
\* any state, the ready channel is empty and in_flight, the number of
\* requests with the writers, is below, at or (after a halving) above max.
PickInit ==
    /\ reqs = PickReqs
    /\ byEndpoint \in [Endpoints -> UNION { [queue : PickQueues(e), state : {unknown, live, dead}]
                                            : e \in Endpoints }]
    /\ \A e \in Endpoints : byEndpoint[e].queue \in PickQueues(e)
    /\ working = { id \in DOMAIN PickReqs :
                      \A e \in Endpoints : id \notin Range(byEndpoint[e].queue) }
    /\ p \in [inFlight : {Cardinality(working)}, max : 1..MaxPickMax, successes : {0}]
    /\ ready = << >>
    /\ links = Locations
    /\ request = << >>
    /\ flushRequest = << >>
    /\ done = << >>
    /\ retry = << >>
    /\ queued = [L \in Locations |-> << L, 1 >>]
    /\ timers = [e \in Endpoints |-> 0]
    /\ latch = << >>
    /\ written = {}
    /\ cycle = [L \in Locations |-> [noCycle EXCEPT !.links = 1]]
    /\ closeLog = << >>
    /\ handleLog = << >>
    /\ nFail = 0
    /\ nReadErr = 0
    /\ panicked = FALSE
    /\ walk = {}
    /\ scanned = {}
    /\ die = FALSE
    /\ sched = "run"
    /\ wTerm = 0
    /\ wExit = 0

\* One call of pickAndQueue that sends something, the range over the map
\* taking the queues in some order.
PickAndQueue ==
    \E o \in Perms(DOMAIN byEndpoint) :
        LET r == pickAndQueue([byEndpoint |-> byEndpoint, p |-> p, ready |-> ready], o) IN
        /\ r.st.ready # ready
        /\ byEndpoint' = r.st.byEndpoint
        /\ p' = r.st.p
        /\ ready' = r.st.ready
        /\ UNCHANGED << links, reqs, request, flushRequest, done, retry, queued, working,
                        timers, latch, written, cycle, closeLog, handleLog, nFail,
                        nReadErr, panicked, runVars >>

\* "Fill the ready queue": the loop of calls of pickAndQueue, when it sends
\* something.
PickFill ==
    /\ Dispatch(byEndpoint, p)
    /\ ready' # ready
    /\ UNCHANGED << links, reqs, request, flushRequest, done, retry, queued, working,
                    timers, latch, written, cycle, closeLog, handleLog, nFail,
                    nReadErr, panicked, runVars >>

PickNext ==
    \/ PickAndQueue
    \/ PickFill

PickSpec == PickInit /\ [][PickNext]_vars

(* ------------------------------------------------------------------ *)
(* The writeback queue loaded to the capacity of its channels: more    *)
(* requests than writers wait in the queue of an endpoint that was     *)
(* marked dead by a failure, max is at or just below writers, and the  *)
(* retry timer of the endpoint is running.                             *)
(* ------------------------------------------------------------------ *)

\* The number of requests queued beyond the number of writers.
MaxFullExtra == 2

\* max starts at most this far below writers.
MaxFullBelow == 1

\* The number of writebacks that fail.
MaxFullFail == 1

\* The n-th location of endpoint e1, and its request.
FullLocation(n) == [Reference |-> "r" \o ToString(n), Endpoint |-> "e1"]
FullReq(n) == << FullLocation(n), 1 >>

FullLocations == { FullLocation(n) : n \in 1..(writers + MaxFullExtra) }

FullInit ==
    /\ reqs = [id \in { FullReq(n) : n \in 1..(writers + MaxFullExtra) } |->
                 [loc |-> id[1], err |-> nil, flushChans |-> << >>]]
    /\ byEndpoint = [e \in {"e1"} |->
                       [queue |-> [n \in 1..(writers + MaxFullExtra) |-> FullReq(n)],
                        state |-> dead]]
    /\ p \in [inFlight : {0}, max : (writers - MaxFullBelow)..writers, successes : {0}]
    /\ timers = [e \in Endpoints |-> IF e = "e1" THEN 1 ELSE 0]
    /\ queued = [L \in FullLocations |-> << L, 1 >>]
    /\ links = FullLocations
    /\ cycle = [L \in FullLocations |-> [noCycle EXCEPT !.links = 1]]
    /\ working = {}
    /\ ready = << >>
    /\ request = << >>
    /\ flushRequest = << >>
    /\ done = << >>
    /\ retry = << >>
    /\ latch = << >>
    /\ written = {}
    /\ closeLog = << >>
    /\ handleLog = << >>
    /\ nFail = 0
    /\ nReadErr = 0
    /\ panicked = FALSE
    /\ walk = {}
    /\ scanned = {}
    /\ die = FALSE
    /\ sched = "run"
    /\ wTerm = 0
    /\ wExit = 0

\* The writer that received its request first returns from writeback and
\* sends on done (every read of a link succeeds).
FullWriteback ==
    \E n \in 1..(writers + MaxFullExtra) :
        /\ FullReq(n) \in working
        /\ \A m \in 1..(n - 1) : FullReq(m) \notin working
        /\ writeback(FullReq(n), MaxFullFail, 0)

FullNext ==
    \/ SchedDone
    \/ SchedRetry
    \/ WriterReceive
    \/ FullWriteback
    \/ \E e \in Endpoints : TimerFire(e)

FullSpec == FullInit /\ [][FullNext]_vars

(* ------------------------------------------------------------------ *)
(* The parallelism controller as the scheduler drives it: add when a   *)
(* request is sent to ready (only under ok), success or failure when a *)
(* request that was sent comes back on done.                           *)
(* ------------------------------------------------------------------ *)

\* The errors a completed request may carry.
Errors ==
    BindErrors \cup PutErrors
    \cup { MismatchError(a, b) : a, b \in References }

otherVars == << links, reqs, request, flushRequest, ready, done, retry, byEndpoint,
                queued, working, timers, latch, written, cycle, closeLog, handleLog,
                nFail, nReadErr, panicked, runVars >>

\* pickAndQueue sends a request: p.ok() held and p.add() is called.
ParAdd ==
    /\ ok(p)
    /\ p' = add(p)
    /\ UNCHANGED otherVars

\* The done case, r.err == nil.
ParSuccess ==
    /\ p.inFlight > 0
    /\ p.successes < MaxSuccesses
    /\ p' = success(p)
    /\ UNCHANGED otherVars

\* The done case, r.err != nil.
ParFailure(err) ==
    /\ p.inFlight > 0
    /\ p' = failure(p, err).p
    /\ UNCHANGED otherVars

ParNext ==
    \/ ParAdd
    \/ ParSuccess
    \/ \E err \in Errors : ParFailure(err)

ParSpec == Init /\ [][ParNext]_vars

(* ------------------------------------------------------------------ *)
(* C1. Bounded concurrency.                                            *)
(* ------------------------------------------------------------------ *)

\* C1 as stated: at the end of every scheduler step in_flight <= max and
\* max <= writers, also in the step in which a timeout halves max.
C1_InFlightAtMostMax == p.inFlight <= p.max /\ p.max <= writers

C1_Range ==
    /\ 1 <= p.max /\ p.max <= writers
    /\ 0 <= p.inFlight /\ p.inFlight <= writers
    /\ p.inFlight <= 2 * p.max - 1

\* C1 as amended: 1 <= max <= writers and 0 <= in_flight <= writers always;
\* in_flight <= max holds after every step that sends a request (in_flight
\* grows only while it is below max); a failure that halves max may leave
\* in_flight above the new max, but never above 2 * max - 1.
C1_BoundedConcurrency ==
    /\ C1_Range
    /\ [][ /\ C1_Range'
           /\ p'.inFlight > p.inFlight => p'.inFlight <= p'.max ]_vars

\* A halving has left more requests in flight than the new max allows.
C1_Witness == p.inFlight > p.max /\ p.max < initialMaxParallel


(* ------------------------------------------------------------------ *)
(* C2. Uniqueness of the request of a location.                        *)
(* ------------------------------------------------------------------ *)

\* The requests for L held in the endpoint queues, in the ready channel, by
\* the writers and in the done channel, counted with repetition.
RECURSIVE InQueues(_, _)
InQueues(L, E) ==
    IF E = {} THEN 0
    ELSE LET e == CHOOSE x \in E : TRUE IN
         CountLoc(byEndpoint[e].queue, L) + InQueues(L, E \ {e})

Holders(L) ==
    InQueues(L, DOMAIN byEndpoint) + CountLoc(ready, L) + CountLoc(done, L)
    + Cardinality({ id \in working : reqs[id].loc = L })

\* Request id is held somewhere between the endpoint queues and done.
Held(id) ==
    \/ \E e \in DOMAIN byEndpoint : id \in Range(byEndpoint[e].queue)
    \/ id \in Range(ready) \/ id \in Range(done) \/ id \in working

C2_Unique ==
    \A L \in Locations :
        /\ Holders(L) \in {0, 1}
        /\ Holders(L) = 1 <=> L \in DOMAIN queued
        /\ L \in DOMAIN queued => Held(queued[L])

\* The scheduler takes from request a request whose location is in queued.
DuplicateSubmit ==
    /\ request # << >>
    /\ request' = Tail(request)
    /\ reqs[Head(request)].loc \in DOMAIN queued

\* C2: for every location L the number of requests for L held in the endpoint
\* queues, the ready channel, the writers and the done channel is 0 or 1, and
\* is 1 exactly when L is a key of queued; the scheduler's step for a submit
\* whose location is already a key of queued changes no queue.
C2_Uniqueness ==
    /\ C2_Unique
    /\ [][ /\ C2_Unique'
           /\ DuplicateSubmit => UNCHANGED << byEndpoint, queued, p, ready >> ]_vars

\* A request the scheduler dropped as a duplicate: it was sent, is no longer
\* in the request channel, and is neither the queued request of its location
\* nor one whose writeback returned nil.
Dropped(id) ==
    /\ id \notin Range(request)
    /\ id \notin written
    /\ ~Held(id)

C2_Witness == \E id \in DOMAIN reqs : Dropped(id)

(* ------------------------------------------------------------------ *)
(* C3. A flush called after requestWriteback returned.                 *)
(* ------------------------------------------------------------------ *)

\* C3: when flush(L) is called after a requestWriteback for L has returned
\* having sent its request, flush's channel is not closed before the
\* writeback of that request has returned without error.
C3_FlushAfterSubmit ==
    \A c \in 1..Len(latch) :
        latch[c].closes > 0 /\ latch[c].after # NoReq => latch[c].after \in written

(* ------------------------------------------------------------------ *)
(* C4. Flush wake-ups on success.                                      *)
(* ------------------------------------------------------------------ *)

\* The place of c in log s (0 when it is not there).
Pos(s, c) == IF c \in Range(s) THEN CHOOSE i \in 1..Len(s) : s[i] = c ELSE 0

C4_Once ==
    /\ ~panicked
    /\ \A c \in 1..Len(latch) :
        /\ latch[c].closes <= 1
        /\ latch[c].closes = 1 <=> c \in Range(closeLog)
        \* one still waiting waits on the queued request of its location
        /\ latch[c].req # NoReq /\ latch[c].closes = 0 =>
               latch[c].loc \in DOMAIN queued /\ queued[latch[c].loc] = latch[c].req
    /\ \A i, j \in 1..Len(closeLog) : closeLog[i] = closeLog[j] => i = j
    \* those appended to one request are closed in the order they were handled
    /\ \A c, d \in 1..Len(latch) :
        /\ latch[c].req # NoReq /\ latch[c].req = latch[d].req
        /\ latch[c].closes = 1 /\ latch[d].closes = 1
        /\ Pos(handleLog, c) < Pos(handleLog, d)
        => Pos(closeLog, c) < Pos(closeLog, d)

\* The scheduler takes from done a request without error.
SuccessHandled ==
    /\ done # << >>
    /\ done' = Tail(done)
    /\ reqs[Head(done)].err = nil

\* C4: in the step in which the scheduler handles a successful completion,
\* every latch appended to the request is closed, in the order in which the
\* flush requests were handled; no latch is ever closed twice.
C4_FlushWakeups ==
    /\ C4_Once
    /\ [][ /\ C4_Once'
           /\ SuccessHandled =>
                /\ closeLog' = closeLog \o reqs[Head(done)].flushChans
                /\ \A c \in Range(reqs[Head(done)].flushChans) : latch'[c].closes = 1
         ]_vars

\* Two latches appended to one request, both closed by its success.
C4_Witness ==
    \E c, d \in 1..Len(latch) :
        /\ c # d
        /\ latch[c].req # NoReq /\ latch[c].req = latch[d].req
        /\ latch[c].closes = 1 /\ latch[d].closes = 1


(* ------------------------------------------------------------------ *)
(* C5. The two steps that close a flush latch.                         *)
(* ------------------------------------------------------------------ *)

C5_Closed ==
    \A c \in 1..Len(latch) :
        latch[c].closes > 0 =>
            /\ latch[c].absent
            /\ \/ latch[c].by = "flush" /\ latch[c].req = NoReq
               \/ /\ latch[c].by = "done"
                  /\ latch[c].req # NoReq
                  /\ reqs[latch[c].req].loc = latch[c].loc
                  /\ latch[c].req \in written

\* The scheduler handles a flush request whose location is not in queued:
\* it closes the latch and changes nothing of its own state.
ClosedAsNotInFlight ==
    /\ flushRequest # << >>
    /\ flushRequest' = Tail(flushRequest)
    /\ latch[Head(flushRequest)].loc \notin DOMAIN queued
    /\ closeLog' = Append(closeLog, Head(flushRequest))
    /\ UNCHANGED << byEndpoint, queued, p, ready, reqs >>

\* The scheduler handles a successful completion: it closes the latches
\* appended to the request, whose location leaves queued.
ClosedBySuccess ==
    /\ SuccessHandled
    /\ closeLog' = closeLog \o reqs[Head(done)].flushChans
    /\ reqs[Head(done)].loc \notin DOMAIN queued'

\* C5: a flush latch is closed only by the step that handles its flush
\* request while its location is not in queued (which changes nothing else
\* of the scheduler's state) or by the step that handles the successful
\* completion of the request it was appended to; either way its location is
\* not in queued when the step ends.
C5_FlushSignalledOnlyWhenAbsent ==
    /\ C5_Closed
    /\ [][ /\ C5_Closed'
           /\ closeLog' # closeLog => ClosedAsNotInFlight \/ ClosedBySuccess ]_vars

\* One latch closed as not in flight and one closed by a success.
C5_Witness ==
    \E c, d \in 1..Len(latch) :
        /\ latch[c].closes = 1 /\ latch[c].by = "flush"
        /\ latch[d].closes = 1 /\ latch[d].by = "done"

(* ------------------------------------------------------------------ *)
(* C6. Idempotent submission.                                          *)
(* ------------------------------------------------------------------ *)

\* C6: while the writeback of a location is pending (from its link being made
\* until its request leaves queued), further calls of requestWriteback for it
\* are no-ops: one link is made, the link is removed once and, when no
\* writeback fails, one put is performed.
C6_IdempotentSubmission ==
    \A L \in Locations :
        /\ cycle[L].links <= 1
        /\ cycle[L].removes <= 1
        /\ nFail = 0 /\ nReadErr = 0 => cycle[L].puts <= 1

(* ------------------------------------------------------------------ *)
(* C7. Persistence of the link.                                        *)
(* ------------------------------------------------------------------ *)

\* Every request sent whose writeback has not returned nil has its link.
C7_LinkKept ==
    \A id \in DOMAIN reqs : id \notin written => reqs[id].loc \in links

\* A link that goes away is the link of a request a writer held, whose
\* writeback in this step called Put and returned nil.
C7_RemovedByPut ==
    \A L \in links \ links' :
        \E id \in working \ working' :
            /\ reqs[id].loc = L
            /\ reqs'[id].err = nil
            /\ cycle'[L].puts = cycle[L].puts + 1

\* C7: from the return of requestWriteback until the writeback of the request
\* returns nil the link exists; a link is removed only by a writer, in a
\* writeback that called Put and returns nil.
C7_Persistence ==
    /\ C7_LinkKept
    /\ [][C7_LinkKept' /\ C7_RemovedByPut]_vars

\* A writeback has put a block and removed its link, and another has failed
\* and left its link.
C7_Witness ==
    /\ \E id \in written : reqs[id].loc \notin links
    /\ \E id \in DOMAIN reqs : reqs[id].err # nil /\ reqs[id].loc \in links

(* ------------------------------------------------------------------ *)
(* C8. A link means a pending writeback.                               *)
(* ------------------------------------------------------------------ *)

\* C8: no link exists while no request for its location is pending, in the
\* request channel or in queued. (Stated for the runs in which every read of
\* a link succeeds.)
C8_LinkMeansPending ==
    nReadErr = 0 =>
        \A L \in links :
            \/ \E id \in Range(request) : reqs[id].loc = L
            \/ L \in DOMAIN queued

(* ------------------------------------------------------------------ *)
(* C9. Dead-endpoint retry.                                            *)
(* ------------------------------------------------------------------ *)

\* The scheduler takes from done a request with a timeout-class error.
TimeoutHandled ==
    /\ done # << >>
    /\ done' = Tail(done)
    /\ isTimeout(reqs[Head(done)].err)

RetryScheduled(e, t, r) == t[e] > 0 \/ e \in Range(r)

\* C9: when the scheduler has handled a completion with a timeout-class
\* error, the queue of the request's endpoint is dead and a retry signal is
\* scheduled for it.
C9_TimeoutMarksDead ==
    [][ TimeoutHandled =>
          LET e == reqs[Head(done)].loc.Endpoint IN
          /\ byEndpoint'[e].state = dead
          /\ RetryScheduled(e, timers', retry') ]_vars

(* ------------------------------------------------------------------ *)
(* C10. Eventual writeback.                                            *)
(* ------------------------------------------------------------------ *)

\* A request of endpoint e is in the ready channel, with a writer or in done.
InFlightFor(e) ==
    \E id \in Range(ready) \cup working \cup Range(done) : reqs[id].loc.Endpoint = e

\* C10: no queue with pending requests is dead with no retry signal
\* outstanding and no request of its endpoint in flight (a state in which
\* it stays for ever, since only a completion or a retry signal changes the
\* state of a dead queue).
C10_NoStrandedQueue ==
    \A e \in DOMAIN byEndpoint :
        byEndpoint[e].state = dead /\ byEndpoint[e].queue # << >> =>
            RetryScheduled(e, timers, retry) \/ InFlightFor(e)

(* ------------------------------------------------------------------ *)
(* C12. The decrease of max on a timeout.                              *)
(* ------------------------------------------------------------------ *)

\* The timeout-class errors a completed request may carry.
TimeoutErrors == { err \in Errors : isTimeout(err) }

\* C12: a failure with a timeout-class error is dealt with; it decrements
\* in_flight and sets successes to 0; max is unchanged when the decremented
\* in_flight is still >= max and becomes (max + 1) / 2 otherwise. So of two
\* timeouts that follow each other from in_flight = max >= 4 only the
\* first halves max.
C12_Decrease ==
    p.inFlight > 0 =>
        \A err \in TimeoutErrors :
            LET f == failure(p, err)
                g == failure(f.p, err)
            IN  /\ f.dealt
                /\ f.p.inFlight = p.inFlight - 1
                /\ f.p.successes = 0
                /\ p.inFlight - 1 >= p.max => f.p.max = p.max
                /\ p.inFlight - 1 < p.max =>
                       /\ 2 * f.p.max \in {p.max, p.max + 1}
                       /\ f.p.max >= 1
                /\ p.inFlight = p.max /\ p.max >= 4 =>
                       /\ 2 * g.p.max \in {p.max, p.max + 1}
                       /\ g.p.inFlight = p.inFlight - 2

\* A timeout has left max = 3 with four requests in flight: the next
\* timeout does not halve.
C12_Witness == p.max = 3 /\ p.inFlight = 4 /\ p.successes = 0

(* ------------------------------------------------------------------ *)
(* C13. The increase of max after successes under load.                *)
(* ------------------------------------------------------------------ *)

\* The dispatch loop with requests waiting for live endpoints: p.add()
\* while p.ok().
RECURSIVE refill(_)
refill(q) == IF ok(q) THEN refill(add(q)) ELSE q

\* k successful completions, each arriving with in_flight filled up to max.
RECURSIVE loadedRun(_, _)
loadedRun(q, k) == IF k = 0 THEN q ELSE loadedRun(success(refill(q)), k - 1)

\* C13: successes stays below max while max < writers; from successes = 0
\* and max = m < writers, a run of k <= m successful completions under load
\* leaves max = m and successes = k for k < m, and gives max = m + 1 and
\* successes = 0 for k = m; with max = writers a success under load leaves
\* max as it is.
C13_Increase ==
    /\ p.max < writers => p.successes < p.max
    /\ p.max < writers /\ p.successes = 0 =>
           \A k \in 1..p.max :
               LET r == loadedRun(p, k) IN
               IF k < p.max
               THEN r.max = p.max /\ r.successes = k
               ELSE r.max = p.max + 1 /\ r.successes = 0
    /\ p.max = writers /\ p.inFlight >= p.max => success(p).max = writers

\* max has grown by one above its initial value and the count started again.
C13_Witness ==
    p.max = initialMaxParallel + 1 /\ p.successes = 0 /\ p.inFlight = initialMaxParallel - 1

(* ------------------------------------------------------------------ *)
(* C14. A timeout at max = 6, then three successes.                    *)
(* ------------------------------------------------------------------ *)

\* k successful completions with no dispatch between them.
RECURSIVE successRun(_, _)
successRun(q, k) == IF k = 0 THEN q ELSE successRun(success(q), k - 1)

\* C14: from max = 6 and in_flight = 6 a timeout-class completion gives
\* max = 3, successes = 0 and in_flight = 5; the three successes that follow
\* with no dispatch between them give successes 1, 2 and then max = 4 with
\* successes = 0 (and in_flight = 2).
C14_DownUp ==
    p.max = 6 /\ p.inFlight = 6 =>
        \A err \in TimeoutErrors :
            LET a == failure(p, err).p IN
            /\ a = [inFlight |-> 5, max |-> 3, successes |-> 0]
            /\ successRun(a, 1) = [inFlight |-> 4, max |-> 3, successes |-> 1]
            /\ successRun(a, 2) = [inFlight |-> 3, max |-> 3, successes |-> 2]
            /\ successRun(a, 3) = [inFlight |-> 2, max |-> 4, successes |-> 0]

\* Six requests are in flight under max = 6.
C14_Witness == p.max = 6 /\ p.inFlight = 6

(* ------------------------------------------------------------------ *)
(* C15. The range of max.                                              *)
(* ------------------------------------------------------------------ *)

\* C15: 1 <= max <= writers in every reachable state; a timeout at max = 1
\* leaves max = 1, and a success at max = writers leaves max = writers.
C15_MaxInRange ==
    /\ 1 <= p.max /\ p.max <= writers
    /\ p.max = 1 /\ p.inFlight > 0 =>
           \A err \in Errors : failure(p, err).p.max = 1
    /\ p.max = writers /\ p.inFlight > 0 => success(p).max = writers

\* max has reached writers and successes are still counted.
C15_Witness == p.max = writers /\ p.successes > writers

(* ------------------------------------------------------------------ *)
(* C19. A completion with an error.                                    *)
(* ------------------------------------------------------------------ *)

\* The scheduler takes from done a request with an error.
ErrorHandled ==
    /\ done # << >>
    /\ done' = Tail(done)
    /\ reqs[Head(done)].err # nil

\* The state of a queue when a scheduler step ends, given its state s when
\* the case of the select ended: s, unless the dispatch loop of the step
\* sent a request from the queue in unknown state.
StateAfterDispatch(e, s) ==
    \/ byEndpoint'[e].state = s
    \/ /\ s = unknown
       /\ byEndpoint'[e].state = dead
       /\ \E i \in 1..Len(ready') : reqs[ready'[i]].loc.Endpoint = e

\* C19: when the scheduler handles a completion with an error that is not
\* timeout-class and the queue of its endpoint is not dead, the queue
\* becomes dead and one retry timer is armed for it; when the queue is dead
\* already, or the error is timeout-class, the state of the queue is left
\* as it is and no timer is armed. No timer of another endpoint changes.
C19_ErrorCompletion ==
    [][ ErrorHandled =>
          LET r == reqs[Head(done)]
              e == r.loc.Endpoint
              s == byEndpoint[e].state
          IN  /\ \A x \in Endpoints \ {e} : timers'[x] = timers[x]
              /\ IF ~isTimeout(r.err) /\ s # dead
                 THEN /\ byEndpoint'[e].state = dead
                      /\ timers'[e] = timers[e] + 1
                 ELSE /\ StateAfterDispatch(e, s)
                      /\ timers'[e] = timers[e] ]_vars

\* A timer is armed for a dead queue that holds again the request that came
\* back with an error that is not timeout-class.
C19_Witness ==
    \E e \in DOMAIN byEndpoint :
        /\ byEndpoint[e].state = dead
        /\ timers[e] = 1
        /\ \E id \in Range(byEndpoint[e].queue) : ~isTimeout(reqs[id].err) /\ reqs[id].err # nil

(* ------------------------------------------------------------------ *)
(* C20. A non-timeout error and the state of the endpoint.             *)
(* ------------------------------------------------------------------ *)

\* C20: when the scheduler handles a completion with an error that is not
\* timeout-class, the request is back in the queue of its endpoint (or sent
\* again) and the queue keeps its state: a live queue stays live.
C20_NonTimeoutKeepsState ==
    [][ ErrorHandled /\ ~isTimeout(reqs[Head(done)].err) =>
          LET id == Head(done)
              e == reqs[id].loc.Endpoint
          IN  /\ id \in Range(byEndpoint'[e].queue) \cup Range(ready')
              /\ StateAfterDispatch(e, byEndpoint[e].state) ]_vars

(* ------------------------------------------------------------------ *)
(* C17. Shutdown terminates.                                           *)
(* ------------------------------------------------------------------ *)

C17_Acks ==
    /\ wTerm + wExit + Cardinality(working) <= writers
    /\ acks <= writers + 1
    \* a writer with a result finds room in done
    /\ Len(ready) + Cardinality(working) + Len(done) = p.inFlight
    /\ p.inFlight <= writers
    /\ closeReturned =>
           /\ sched = "exit"
           /\ wExit = writers /\ wTerm = 0
           /\ working = {}

\* C17: once close has closed die, and every put in progress returning,
\* close returns, having received writers + 1 values from terminated: one
\* from the scheduler and one from each writer, all of which have returned
\* then; no writer holds a request it cannot send on done.
C17_ShutdownTerminates ==
    /\ []C17_Acks
    /\ (die ~> closeReturned)

\* close has returned, and a writer has sent on done a result the scheduler,
\* which had returned, never received.
C17_Witness == closeReturned /\ done # << >>

(* ------------------------------------------------------------------ *)
(* C18. Shutdown and the puts in progress.                             *)
(* ------------------------------------------------------------------ *)

\* C18: once close has closed die, close returns, also when a put in
\* progress never returns.
C18_CloseAbandonsPuts == die ~> closeReturned

(* ------------------------------------------------------------------ *)
(* C11. No starvation across endpoints.                                *)
(* ------------------------------------------------------------------ *)

\* The queue of endpoint e is not dead and has a request at its head.
HeadWaiting(e) ==
    /\ e \in DOMAIN byEndpoint
    /\ byEndpoint[e].state # dead
    /\ byEndpoint[e].queue # << >>

\* Something is left to happen that does not wait for a put to e1 to
\* return: the scheduler has an event to receive, a timer is armed, a writer
\* has a request to receive, or a put to another endpoint is in progress.
PendingWithout(e1) ==
    \/ request # << >> \/ done # << >> \/ retry # << >>
    \/ \E e \in Endpoints : timers[e] > 0
    \/ ready # << >>
    \/ \E id \in working : reqs[id].loc.Endpoint # e1

\* C11: a request at the head of the queue of e2, the queue not dead, is
\* sent to the ready channel also when the puts of the requests sent for e1
\* never return: it is never left waiting in a state in which nothing but
\* the return of a put to e1 is left to happen.
C11_NoStarvation == HeadWaiting("e2") => PendingWithout("e1")

(* ------------------------------------------------------------------ *)
(* C16. Crash recovery.                                                *)
(* ------------------------------------------------------------------ *)

\* The path ends with the writeback suffix, the rest has three components,
\* the first is the string of the endpoint of L and the last its reference.
IsLinkOf(path, L) ==
    /\ path.tail = "_wbf"
    /\ Len(path.elems) = 3
    /\ path.elems[1] = EndpointString(L.Endpoint)
    /\ path.elems[3] = L.Reference

\* The walk's step for a path sends one request, with the endpoint and
\* the reference of the path, when it is a link, and none otherwise.
C16_OneRequest ==
    \A path \in walk \ walk' :
        IF \E L \in Locations : IsLinkOf(path, L)
        THEN \E L \in Locations :
                 /\ IsLinkOf(path, L)
                 /\ Len(request') = Len(request) + 1
                 /\ DOMAIN reqs' = DOMAIN reqs \cup { request'[Len(request')] }
                 /\ request'[Len(request')] \notin DOMAIN reqs
                 /\ reqs'[request'[Len(request')]].loc = L
        ELSE request' = request /\ reqs' = reqs

\* The writeback of the first request of a location returns nil having
\* put the block and removed the link.
C16_PutAndRemoved ==
    \A id \in written' \ written :
        id[2] = 1 =>
            /\ id[1] \in links /\ id[1] \notin links'
            /\ cycle'[id[1]].puts = cycle[id[1]].puts + 1

\* The walk has ended and every link the directory held has been put and
\* removed.
Recovered ==
    /\ walk = {}
    /\ \A L \in Locations : L \in links => << L, 1 >> \in written
    /\ \A id \in DOMAIN reqs : id[2] = 1 => id \in written

OtherErrors == Errors \ TimeoutErrors

\* C21: a failure with an error that is not timeout-class decrements
\* in_flight and changes nothing else of the parallelism state, max and
\* successes staying as they are, and it is not dealt with (failure returns
\* false).
C21_NonTimeoutFailure ==
    p.inFlight > 0 =>
        \A err \in OtherErrors :
            LET f == failure(p, err) IN
            /\ ~f.dealt
            /\ f.p = [p EXCEPT !.inFlight = p.inFlight - 1]
            /\ f.p.max = p.max /\ f.p.successes = p.successes

\* A run of successes stands below max = 6 with two requests fewer in
\* flight than max: one success under load, one failure that kept the run.
C21_Witness == p.max = 6 /\ p.successes = 1 /\ p.inFlight = 4

(* ------------------------------------------------------------------ *)
(* C22. A failed completion leaves the request alive.                  *)
(* ------------------------------------------------------------------ *)

\* The requests of endpoint e the dispatch loop of this step sent to ready,
\* in the order they were sent.
SentFrom(e) ==
    SelectSeq(SubSeq(ready', Len(ready) + 1, Len(ready')),
              LAMBDA id : reqs[id].loc.Endpoint = e)

\* The scheduler's step for a completion with an error: the request is
\* appended to the queue of its endpoint (from whose head the dispatch loop
\* of the step may send), stays the queued request of its location with its
\* flush channels, none of which is closed, and its link stays.
C22_SchedulerKeeps ==
    ErrorHandled =>
        LET id == Head(done)
            L == reqs[id].loc
            e == L.Endpoint
        IN  /\ SentFrom(e) \o byEndpoint'[e].queue = Append(byEndpoint[e].queue, id)
            /\ L \in DOMAIN queued /\ queued[L] = id
            /\ queued' = queued
            /\ reqs' = reqs
            /\ latch' = latch /\ closeLog' = closeLog
            /\ L \in links /\ links' = links

\* A writeback that returns an error leaves the link and the flush
\* channels of the request.
C22_WriterKeeps ==
    \A id \in working \ working' :
        reqs'[id].err # nil =>
            /\ reqs[id].loc \in links /\ links' = links
            /\ reqs'[id].flushChans = reqs[id].flushChans
            /\ latch' = latch /\ closeLog' = closeLog
            /\ queued' = queued /\ queued[reqs[id].loc] = id

\* C22: a completion with an error (from bind, from put or a reference
\* mismatch, timeout-class or not) leaves the request alive: the scheduler
\* appends it at the tail of the queue of its own endpoint, its location
\* stays in queued, no flush channel of it is closed, its flush channels are
\* kept, and neither the writer nor the scheduler removes its link.
C22_FailureKeepsRequest == [][C22_SchedulerKeeps /\ C22_WriterKeeps]_vars

\* A request that failed is back at the tail of its queue, behind another,
\* with its link and a flush channel that is still open.
C22_Witness ==
    \E e \in DOMAIN byEndpoint :
        LET q == byEndpoint[e].queue IN
        /\ Len(q) >= 2
        /\ reqs[q[Len(q)]].err # nil
        /\ reqs[q[Len(q)]].flushChans # << >>
        /\ \A c \in Range(reqs[q[Len(q)]].flushChans) : latch[c].closes = 0
        /\ reqs[q[Len(q)]].loc \in links
        /\ queued[reqs[q[Len(q)]].loc] = q[Len(q)]

(* ------------------------------------------------------------------ *)
(* C23. A writeback link that cannot be read.                          *)
(* ------------------------------------------------------------------ *)

\* A writeback whose read of the link fails calls neither bind nor put
\* and returns nil.
C23_WriterSkips ==
    \A id \in working \ working' :
        LET L == reqs[id].loc IN
        L \notin links \/ nReadErr' # nReadErr =>
            /\ reqs'[id].err = nil
            /\ cycle'[L].puts = cycle[L].puts

\* The scheduler's step for the completion of a request that was never
\* put: the queue of its endpoint is live, its flush channels are closed,
\* its location leaves queued, and no link of the location remains.
C23_SchedulerDischarges ==
    SuccessHandled /\ cycle[reqs[Head(done)].loc].puts = 0 =>
        LET id == Head(done)
            L == reqs[id].loc
        IN  /\ byEndpoint'[L.Endpoint].state = live
            /\ \A c \in Range(reqs[id].flushChans) : latch'[c].closes = 1
            /\ L \notin DOMAIN queued'
            /\ L \notin links'

\* C23: when a writer cannot read the link of a request it makes no bind
\* and no put and reports success; the scheduler handles the completion as
\* a success (queue live, flush channels closed, location out of queued),
\* and after that no link of the location remains.
C23_UnreadableLink == [][C23_WriterSkips /\ C23_SchedulerDischarges]_vars

(* ------------------------------------------------------------------ *)
(* C24. Malformed links at start-up.                                   *)
(* ------------------------------------------------------------------ *)

\* The path ends with the writeback suffix.
HasSuffix(path) == path.tail = writebackSuffix

\* The path ends with the suffix and the rest has not three components, or
\* its first component is not the string of an endpoint.
Malformed(path) ==
    /\ HasSuffix(path)
    /\ \/ Len(path.elems) # 3
       \/ \A e \in Endpoints : path.elems[1] # EndpointString(e)

\* What the walk was told about the paths it has visited.
C24_Reported ==
    \A s \in scanned : s.ret <=> HasSuffix(s.path)

\* The walk's step for a malformed path or a path without the suffix
\* submits nothing and removes nothing; the other paths are still to visit.
C24_Skipped ==
    \A path \in walk \ walk' :
        Malformed(path) \/ ~HasSuffix(path) =>
            /\ request' = request /\ reqs' = reqs
            /\ links' = links
            /\ UNCHANGED << byEndpoint, queued, ready >>
            /\ walk' = walk \ {path}

\* C24: for a path that ends with the writeback suffix and whose rest has
\* not exactly three components, or whose endpoint does not parse, no
\* request is submitted and no link is removed, enqueueWritebackFile
\* returns true, and the walk goes on to the other paths, all of which it
\* visits; for a path without the suffix it returns false and submits
\* nothing.
C24_MalformedLink ==
    /\ []C24_Reported
    /\ [][C24_Skipped]_vars
    /\ <>(walk = {})

\* The walk has ended, having visited the three malformed paths and the
\* cache file, and the links it visited along with them are submitted.
C24_Witness ==
    /\ walk = {}
    /\ Cardinality({ s \in scanned : Malformed(s.path) /\ s.ret }) = 3
    /\ \E s \in scanned : ~HasSuffix(s.path) /\ ~s.ret
    /\ Cardinality({ s \in scanned : ~Malformed(s.path) /\ s.ret }) = 3
    /\ Cardinality({ id \in DOMAIN reqs : id[2] = 1 }) = 3

(* ------------------------------------------------------------------ *)
(* C25. The queue of an endpoint is first in, first out.               *)
(* ------------------------------------------------------------------ *)

\* The queue of endpoint e in the map be, empty when e has none.
QueueOf(be, e) == IF e \in DOMAIN be THEN be[e].queue ELSE << >>

\* The scheduler takes from request a request whose location is not queued.
NewSubmit ==
    /\ request # << >>
    /\ request' = Tail(request)
    /\ reqs[Head(request)].loc \notin DOMAIN queued

\* What this step appends to the queue of endpoint e: a new submit or a
\* failed completion of e, if the step handles one.
AppendedTo(e) ==
    IF NewSubmit /\ reqs[Head(request)].loc.Endpoint = e THEN << Head(request) >>
    ELSE IF ErrorHandled /\ reqs[Head(done)].loc.Endpoint = e THEN << Head(done) >>
    ELSE << >>

\* C25: in every step, for every endpoint, what is sent from its queue to
\* the ready channel, in the order sent, followed by the queue that is
\* left, is the old queue followed by what the step appended (a new submit
\* or a failed completion): requests leave at the head and join at the
\* tail. So the requests of an endpoint are sent in the order they were
\* appended, and a failed request is sent again only after every request
\* that was in the queue when it failed.
C25_EndpointFIFO ==
    [][ \A e \in Endpoints :
          SentFrom(e) \o QueueOf(byEndpoint', e) = QueueOf(byEndpoint, e) \o AppendedTo(e)
      ]_vars

\* Two requests of one endpoint have failed: one has been sent again, the
\* other waits at the head of the queue.
C25_Witness ==
    \E e \in DOMAIN byEndpoint :
        /\ byEndpoint[e].queue # << >>
        /\ reqs[Head(byEndpoint[e].queue)].err # nil
        /\ \E i \in 1..Len(ready) :
               reqs[ready[i]].loc.Endpoint = e /\ reqs[ready[i]].err # nil

(* ------------------------------------------------------------------ *)
(* C26. The guard of a send to the ready channel.                      *)
(* ------------------------------------------------------------------ *)

\* The dispatch state the scheduler is in.
Now == [byEndpoint |-> byEndpoint, p |-> p, ready |-> ready]

\* The visit of pickAndQueue to the queue of e alone, from dispatch state
\* st: ret is whether it sent.
Visit(st, e) == pickLoop(st, << e >>, 1, FALSE)

\* The visit of the queue of e: it sends only when in_flight < max and the
\* queue is not dead, and then takes the head of that queue, appends it to
\* ready and adds one to in_flight, leaving max, successes and the other
\* queues; when it does not send it changes nothing.
C26_Send(e) ==
    LET q == byEndpoint[e]
        v == Visit(Now, e)
    IN  /\ v.ret =>
              /\ p.inFlight < p.max
              /\ q.state # dead
              /\ q.queue # << >>
              /\ v.st.ready = Append(ready, Head(q.queue))
              /\ v.st.byEndpoint[e].queue = Tail(q.queue)
              /\ v.st.p = [p EXCEPT !.inFlight = p.inFlight + 1]
              /\ \A x \in DOMAIN byEndpoint \ {e} : v.st.byEndpoint[x] = byEndpoint[x]
        /\ ~v.ret => v.st = Now

\* A pass that comes to a queue with in_flight >= max ends there, and
\* returns false whatever it has sent.
C26_Stop ==
    p.inFlight >= p.max =>
        \A o \in Perms(DOMAIN byEndpoint) : \A i \in 1..Len(o) : \A sent \in BOOLEAN :
            pickLoop(Now, o, i, sent) = [st |-> Now, ret |-> FALSE]

\* A whole pass sends as many requests as it adds to in_flight, and none
\* beyond max.
C26_Pass ==
    \A o \in Perms(DOMAIN byEndpoint) :
        LET r == pickAndQueue(Now, o) IN
        /\ r.st.p.inFlight - p.inFlight = Len(r.st.ready) - Len(ready)
        /\ r.st.ready # ready => r.st.p.inFlight <= p.max

\* C26: a request is sent to the ready channel only when in_flight < max
\* at the send and the queue of its endpoint is not dead; each send takes
\* the head of that queue and adds exactly one to in_flight; a pass ends at
\* the first queue it visits with in_flight >= max.
C26_DispatchGuard ==
    /\ \A e \in DOMAIN byEndpoint : C26_Send(e)
    /\ C26_Stop
    /\ C26_Pass

\* A pass has sent a request and ended at the ceiling with a request of
\* the other endpoint, whose queue is not dead, left waiting.
C26_Witness ==
    /\ ready # << >>
    /\ p.inFlight = p.max
    /\ \E e \in DOMAIN byEndpoint :
           /\ byEndpoint[e].state # dead /\ byEndpoint[e].queue # << >>
           /\ \A i \in 1..Len(ready) : reqs[ready[i]].loc.Endpoint # e

(* ------------------------------------------------------------------ *)
(* C27. The dispatch loop conserves work and terminates.               *)
(* ------------------------------------------------------------------ *)

\* The number of requests in the queues of the endpoints in E.
RECURSIVE Waiting(_, _)
Waiting(be, E) ==
    IF E = {} THEN 0
    ELSE LET e == CHOOSE x \in E : TRUE IN Len(be[e].queue) + Waiting(be, E \ {e})

\* In dispatch state st nothing can be sent: in_flight has reached max, or
\* every queue that is not dead is empty, or the ready channel is full.
NothingToSend(st) ==
    \/ st.p.inFlight >= st.p.max
    \/ \A e \in DOMAIN st.byEndpoint :
           st.byEndpoint[e].state = dead \/ st.byEndpoint[e].queue = << >>
    \/ Len(st.ready) = writers

\* C27: from every state a case of the select may leave, the loop of passes
\* ends, whatever the orders in which the passes take the queues, having
\* sent no more requests than were waiting, each counted in in_flight; and
\* when it ends in_flight >= max, or every queue that is not dead is empty,
\* or the ready channel is full: no request that could be sent is left.
C27_FillLoop ==
    \A st \in fillReady(Now) :
        /\ NothingToSend(st)
        /\ Len(st.ready) - Len(ready) <= Waiting(byEndpoint, DOMAIN byEndpoint)
        /\ Len(st.ready) - Len(ready) = st.p.inFlight - p.inFlight
        /\ Len(st.ready) - Len(ready)
               = Waiting(byEndpoint, DOMAIN byEndpoint)
                 - Waiting(st.byEndpoint, DOMAIN st.byEndpoint)

\* The loop has ended having sent the two requests of one endpoint, which
\* takes two passes, with capacity to spare.
C27_Witness ==
    /\ p.inFlight < p.max
    /\ NothingToSend(Now)
    /\ \E i, j \in 1..Len(ready) :
           i # j /\ reqs[ready[i]].loc.Endpoint = reqs[ready[j]].loc.Endpoint

(* ------------------------------------------------------------------ *)
(* C28. A single probe of an unknown endpoint.                         *)
(* ------------------------------------------------------------------ *)

\* The state of the queue of e in the map be; a new queue is unknown.
StateOf(be, e) == IF e \in DOMAIN be THEN be[e].state ELSE unknown

\* The scheduler handles a successful completion of endpoint e.
SuccessFor(e) == SuccessHandled /\ reqs[Head(done)].loc.Endpoint = e

\* The scheduler handles a retry signal of endpoint e.
RetryFor(e) == retry # << >> /\ retry' = Tail(retry) /\ Head(retry) = e

\* C28: a step that finds the queue of an endpoint unknown or dead, and is
\* not the success of one of its requests, sends at most one request from
\* it, however many are queued, and leaves it dead if it sends; from a dead
\* queue nothing is sent unless the step handles a retry signal or a success
\* of the endpoint; a step that sends from a live queue leaves it live.
C28_SingleProbe ==
    [][ \A e \in Endpoints :
          LET s == StateOf(byEndpoint, e) IN
          /\ s # live /\ ~SuccessFor(e) =>
                 /\ Len(SentFrom(e)) <= 1
                 /\ SentFrom(e) # << >> => byEndpoint'[e].state = dead
          /\ s = dead /\ ~SuccessFor(e) /\ ~RetryFor(e) => SentFrom(e) = << >>
          /\ s = live /\ SentFrom(e) # << >> => byEndpoint'[e].state = live
      ]_vars

\* After a retry signal one of two failed requests of an endpoint has been
\* sent as the probe; the other waits in the queue, now dead, with capacity
\* free.
C28_Witness ==
    \E e \in DOMAIN byEndpoint :
        /\ byEndpoint[e].state = dead
        /\ byEndpoint[e].queue # << >>
        /\ reqs[Head(byEndpoint[e].queue)].err # nil
        /\ p.inFlight < p.max
        /\ Cardinality({ i \in 1..Len(ready) :
                           reqs[ready[i]].loc.Endpoint = e /\ reqs[ready[i]].err # nil }) = 1
        /\ \A id \in working \cup Range(done) : reqs[id].loc.Endpoint # e

(* ------------------------------------------------------------------ *)
(* C29. The retry signal.                                              *)
(* ------------------------------------------------------------------ *)

\* The queues as the claim has the retry case leave them for a signal of
\* e: the queue of e unknown if it was dead, everything else as it was.
AfterSignal(be, e) ==
    [x \in DOMAIN be |->
        IF x = e /\ be[x].state = dead
        THEN [queue |-> be[x].queue, state |-> unknown]
        ELSE be[x]]

\* The scheduler's step for a retry signal of e: the case changes the state
\* of the queue of e and nothing else, and the dispatch loop follows.
C29_Handled(e) ==
    LET s == byEndpoint[e].state
        be1 == AfterSignal(byEndpoint, e)
    IN  /\ [byEndpoint |-> byEndpoint', p |-> p', ready |-> ready']
               \in fillReady([byEndpoint |-> be1, p |-> p, ready |-> ready])
        /\ queued' = queued /\ reqs' = reqs /\ timers' = timers
        /\ p'.max = p.max /\ p'.successes = p.successes
        \* a stale signal: nothing changes
        /\ s # dead => byEndpoint' = byEndpoint /\ p' = p /\ ready' = ready
        \* a signal for a dead queue: unknown, or dead again after the one
        \* request the dispatch loop sent from it
        /\ s = dead =>
               /\ \A x \in DOMAIN byEndpoint \ {e} : byEndpoint'[x] = byEndpoint[x]
               /\ DOMAIN byEndpoint' = DOMAIN byEndpoint
               /\ \/ /\ byEndpoint'[e] = be1[e]
                     /\ p' = p /\ ready' = ready
                  \/ /\ byEndpoint[e].queue # << >>
                     /\ byEndpoint'[e] = [queue |-> Tail(byEndpoint[e].queue), state |-> dead]
                     /\ ready' = Append(ready, Head(byEndpoint[e].queue))
                     /\ p'.inFlight = p.inFlight + 1
        \* a second signal finds the case's work done
        /\ AfterSignal(be1, e) = be1

C30_SuccessMakesLive ==
    [][ \A e \in Endpoints :
          SuccessFor(e) =>
              /\ byEndpoint'[e].state = live
              /\ SentFrom(e) \o byEndpoint'[e].queue = byEndpoint[e].queue
              /\ byEndpoint'[e].queue # << >> => p'.inFlight >= p'.max
      ]_vars

\* The one request that failed, which left its queue dead with a timer that
\* has not fired, has been sent again from the queue, live after the
\* success of another request of the endpoint.
C30_Witness ==
    \E e \in DOMAIN byEndpoint :
        /\ byEndpoint[e].state = live
        /\ nFail = 1 /\ timers[e] = 1 /\ retry = << >>
        /\ \E i \in 1..Len(ready) :
               /\ reqs[ready[i]].loc.Endpoint = e
               /\ reqs[ready[i]].err # nil /\ ~isTimeout(reqs[ready[i]].err)

(* ------------------------------------------------------------------ *)
(* C31. The accounting of in_flight.                                   *)
(* ------------------------------------------------------------------ *)

\* The requests sent to the ready channel whose completion the scheduler
\* has not handled: in ready, held by a writer, or in done.
Outstanding == Len(ready) + Cardinality(working) + Len(done)

\* The scheduler takes a request from done.
CompletionHandled == done # << >> /\ done' = Tail(done)

\* The number of requests this step sends to the ready channel.
NumSentToReady == IF Len(ready') > Len(ready) THEN Len(ready') - Len(ready) ELSE 0

\* C31: in every state in_flight is the number of requests sent to the
\* ready channel whose completion the scheduler has not handled, and is not
\* negative; a step that handles a completion, with or without an error,
\* takes exactly one from in_flight, before it adds one for every request
\* it sends.
C31_InFlightAccounting ==
    /\ [](p.inFlight = Outstanding /\ p.inFlight >= 0)
    /\ [][ CompletionHandled =>
             p'.inFlight = p.inFlight - 1 + NumSentToReady ]_vars

\* Two requests are outstanding, one with a writer and one in done, after
\* the completion of another has been handled.
C31_Witness ==
    /\ p.inFlight = 2
    /\ working # {} /\ done # << >>
    /\ \E id \in written : id \notin Range(done)

(* ------------------------------------------------------------------ *)
(* C32. A success below the ceiling.                                   *)
(* ------------------------------------------------------------------ *)

\* C32: a success that arrives with in_flight below max (as it was before
\* the completion) decrements in_flight and changes nothing else: successes
\* and max stay as they are.
C32_UnderLoadedSuccess ==
    p.inFlight > 0 /\ p.inFlight < p.max =>
        /\ success(p) = [p EXCEPT !.inFlight = p.inFlight - 1]
        /\ success(p).successes = p.successes
        /\ success(p).max = p.max

\* One success was counted at the ceiling of 6; the completions since,
\* below the ceiling, have left the count at 1.
C32_Witness == p.max = 6 /\ p.successes = 1 /\ p.inFlight = 2

(* ------------------------------------------------------------------ *)
(* C33. The scheduler exits only on shutdown.                          *)
(* ------------------------------------------------------------------ *)

\* The scheduler is in its loop, unless die is closed; no goroutine has
\* panicked.
C33_Running ==
    /\ ~panicked
    /\ sched # "run" => die

\* The scheduler takes from done the completion of a request for whose
\* endpoint there is a queue.
C33_QueueExists ==
    CompletionHandled => reqs[Head(done)].loc.Endpoint \in DOMAIN byEndpoint

\* The scheduler leaves its loop by the die case alone, which sends
\* nothing to ready and changes nothing of the queues; it returns once
\* close has received its value from terminated.
C33_Exit ==
    /\ sched = "run" /\ sched' # "run" =>
           /\ die /\ sched' = "term"
           /\ UNCHANGED << byEndpoint, queued, p, ready, request, done, retry,
                           flushRequest, latch, closeLog >>
    /\ sched = "term" => sched' \in {"term", "exit"}
    /\ sched = "exit" => sched' = "exit"

\* While the scheduler is in its loop it can take what its channels hold:
\* every case of its select is open to it.
C33_NotBlocked ==
    sched = "run" =>
        /\ request # << >> => ENABLED SchedRequest
        /\ done # << >> => ENABLED SchedDone
        /\ retry # << >> => ENABLED SchedRetry
        /\ flushRequest # << >> => ENABLED SchedFlush
        /\ die => ENABLED SchedDie

\* C33: the scheduler leaves its loop only when die is closed: no error of
\* a completion, no duplicate submit, no flush of a location that is not
\* queued and no stale retry signal makes it panic, return or block; every
\* completion it handles finds the queue of its endpoint; in the die case
\* it sends on terminated and returns without another dispatch pass.
C33_ExitsOnlyOnShutdown ==
    /\ [](C33_Running /\ C33_NotBlocked)
    /\ [][C33_QueueExists /\ C33_Exit]_vars

\* The scheduler has returned after close, having closed at once the
\* channel of a flush and handled a completion with an error, whose request
\* is back in its queue.
C33_Witness ==
    /\ sched = "exit"
    /\ \E c \in 1..Len(latch) : latch[c].closes = 1 /\ latch[c].by = "flush"
    /\ \E e \in DOMAIN byEndpoint :
           \E id \in Range(byEndpoint[e].queue) : reqs[id].err # nil


(* ------------------------------------------------------------------ *)
(* C34. The capacity of the ready and done channels.                   *)
(* ------------------------------------------------------------------ *)

\* pickAndQueue has something to send: a queue that is not dead holds a
\* request.
Sendable == \E e \in DOMAIN byEndpoint :
               byEndpoint[e].state # dead /\ byEndpoint[e].queue # << >>

\* pickAndQueue's select would take its default branch ("Queue full"): it
\* is past p.ok() with a request to send and the ready channel has no room.
QueueFull == ok(p) /\ Sendable /\ Len(ready) >= writers

\* C34: in_flight never exceeds writers, so the ready channel, the writers
\* and the done channel together never hold more than writers requests;
\* whenever a writer holds a request the done channel has room for it, so
\* the writer's send does not block; and the scheduler's dispatch never ends
\* in the "Queue full" branch of pickAndQueue's select, the only send the
\* scheduler makes while it runs.
C34_ChannelCapacity ==
    /\ p.inFlight <= writers
    /\ Outstanding <= writers
    /\ working # {} => Len(done) < writers
    /\ ~QueueFull

\* The ready channel is filled to its capacity while one more request waits
\* in the queue of a live endpoint: only the ceiling keeps pickAndQueue from
\* the send.
C34_Witness ==
    /\ Len(ready) = writers
    /\ byEndpoint["e1"].state = live
    /\ byEndpoint["e1"].queue # << >>


(* ------------------------------------------------------------------ *)
(* C35. The bound of the count of successes.                           *)
(* ------------------------------------------------------------------ *)

\* The step is the done case for a request that failed with a timeout.
TimeoutFailure == \E err \in TimeoutErrors : ParFailure(err)

\* successes is never negative and is below max in every state with
\* max < writers: it is at or above max only while max = writers.
C35_Bounded ==
    /\ p.successes >= 0
    /\ p.max < writers => p.successes < p.max
    /\ p.successes >= p.max => p.max = writers

\* Every step that changes max, up or down, and every timeout failure
\* leaves successes = 0.
C35_Reset ==
    /\ p'.max # p.max => p'.successes = 0
    /\ TimeoutFailure => p'.successes = 0

\* C35: in every reachable state with max < writers, 0 <= successes < max;
\* successes is set to 0 by every change of max and by every failure with a
\* timeout, and reaches or exceeds max only while max = writers.
C35_SuccessCounter == []C35_Bounded /\ [][C35_Reset]_vars

\* After a halving to max = 3 the count has reached max - 1 under full load.
C35_Witness == p.max = 3 /\ p.successes = 2 /\ p.inFlight = 3

====
